---- MODULE Spec2Model ----
(***************************************************************************)
(* State-machine model of the swarm-blackjack email service: one run of    *)
(* pipeline.process (src/email-service/pipeline.py) with its collaborators *)
(* auth.check, encryption.resolve_recipient_address, encryption.encrypt,   *)
(* templates.validate, templates.render and transport.deliver.             *)
(*                                                                         *)
(* Python values are modelled as follows.  An optional value (str | None,  *)
(* bool | None) is None == <<>> or Some(v) == <<v>>.  A formatted string   *)
(* (f"...{x}...") is the record Msg(template, <<arguments>>), so that two  *)
(* strings are equal exactly when template and arguments are.  A payload   *)
(* is a function from the field names it holds to the kind of each value.  *)
(***************************************************************************)
EXTENDS Integers, Sequences, FiniteSets, TLC

None == <<>>
Some(v) == <<v>>
Val(o) == o[1]

\* Python truthiness of a str | None value: `not x`.
Falsy(o) == o = None \/ o = Some("")

Msg(text, args) == [text |-> text, args |-> args]

RECURSIVE Flatten(_)
Flatten(msgs) ==
    IF msgs = <<>> THEN <<>>
    ELSE <<Head(msgs).text>> \o Head(msgs).args \o Flatten(Tail(msgs))

\* "; ".join(errors)
Join(errors) == Msg("; ", Flatten(errors))

(***************************************************************************)
(* auth.py                                                                 *)
(***************************************************************************)
TIER_LEVELS ==
    "system" :> 1 @@ "social" :> 2 @@ "personal" :> 3 @@
    "confidential" :> 4 @@ "restricted" :> 5

CALLER_TIER_POLICY ==
    "auth-service" :> {"system"} @@
    "game-state"   :> {"system", "social", "personal"} @@
    "chat-service" :> {"social"} @@
    "bank-service" :> {"restricted"} @@
    "test"         :> {"system", "social", "personal", "confidential", "restricted"}

HONEYPOT_MESSAGE_TYPES == {"password_reset"}

AuthRequest(calling_service, request_id, tier, message_type, recipient_user_id) ==
    [calling_service |-> calling_service, request_id |-> request_id, tier |-> tier,
     message_type |-> message_type, recipient_user_id |-> recipient_user_id]

AuthResult(authorized, enforced_tier, reason, security_alert, alert_detail) ==
    [authorized |-> authorized, enforced_tier |-> enforced_tier, reason |-> reason,
     security_alert |-> security_alert, alert_detail |-> alert_detail]

\* A faulty _call_opa: every caller is permitted every tier.
_call_opa_AllowAll(auth_req) == AuthResult(TRUE, Some(auth_req.tier), None, FALSE, None)

\* The stub authority: applies CALLER_TIER_POLICY.
_call_opa(auth_req) ==
    LET allowed_tiers ==
            IF auth_req.calling_service \in DOMAIN CALLER_TIER_POLICY
            THEN CALLER_TIER_POLICY[auth_req.calling_service] ELSE {}
    IN  IF auth_req.tier \notin allowed_tiers
        THEN AuthResult(FALSE, None,
                 Some(Msg("Service '{}' not permitted to send '{}' tier",
                          <<auth_req.calling_service, auth_req.tier>>)),
                 FALSE, None)
        ELSE AuthResult(TRUE, Some(auth_req.tier), None, FALSE, None)

\* A faulty check_alerts: the honeypot is tripped silently.
check_alerts_Silent(auth_req) == 0

\* Honeypot branch of check: the number of security alerts it logs.
check_alerts(auth_req) ==
    IF auth_req.message_type \in HONEYPOT_MESSAGE_TYPES THEN 1 ELSE 0

\* A faulty check: the honeypot is logged but the authority's answer stands.
check_NoOverride(auth_req, opa_result) == opa_result

\* check, given what _call_opa returned for auth_req.
check(auth_req, opa_result) ==
    IF auth_req.message_type \in HONEYPOT_MESSAGE_TYPES
    THEN AuthResult(FALSE, None, Some(Msg("Message type not available", <<>>)),
                    TRUE,
                    Some(Msg("Honeypot triggered by {}", <<auth_req.calling_service>>)))
    ELSE opa_result

(***************************************************************************)
(* templates.py                                                            *)
(***************************************************************************)
MessageTypeSpec(minimum_tier, required_fields) ==
    [minimum_tier |-> minimum_tier, required_fields |-> required_fields]

MESSAGE_TYPES ==
    "verify_email" :> MessageTypeSpec("system", <<"verification_url", "expires_in">>) @@
    "magic_link" :> MessageTypeSpec("system", <<"magic_url", "expires_in">>) @@
    "password_reset" :> MessageTypeSpec("system", <<"reset_url", "expires_in">>) @@
    "game_invite" :>
        MessageTypeSpec("social", <<"inviter_name", "table_name", "join_url">>) @@
    "game_result_notify" :> MessageTypeSpec("social", <<"result", "net_change">>) @@
    "session_summary" :>
        MessageTypeSpec("personal",
            <<"hands_played", "net_result", "session_start", "session_end">>) @@
    "account_flag_notice" :> MessageTypeSpec("confidential", <<"reason", "action_taken">>) @@
    "transaction_receipt" :>
        MessageTypeSpec("restricted",
            <<"transaction_id", "amount", "type", "timestamp", "balance_after">>)

\* templates.TIER_LEVELS, the registry's own copy of the tier order.
TEMPLATE_TIER_LEVELS ==
    "system" :> 1 @@ "social" :> 2 @@ "personal" :> 3 @@
    "confidential" :> 4 @@ "restricted" :> 5

\* TIER_LEVELS.get(tier, 0)
TierRank(tier) ==
    IF tier \in DOMAIN TEMPLATE_TIER_LEVELS THEN TEMPLATE_TIER_LEVELS[tier] ELSE 0

\* Kinds of payload value: JSON null, a non-numeric string, a number.
ValueKinds == {"null", "text", "num"}

\* A faulty FieldMissing: a field mapped to null counts as present.
FieldMissing_AbsentOnly(payload, field) == field \notin DOMAIN payload

\* `field not in payload or payload[field] is None`
FieldMissing(payload, field) ==
    field \notin DOMAIN payload \/ payload[field] = "null"

validate(message_type, tier, payload) ==
    IF message_type \notin DOMAIN MESSAGE_TYPES
    THEN <<Msg("Unknown message type: {}", <<message_type>>)>>
    ELSE LET spec == MESSAGE_TYPES[message_type]
             ordering ==
                 IF TierRank(tier) < TierRank(spec.minimum_tier)
                 THEN <<Msg("Message type '{}' requires minimum tier '{}', got '{}'",
                            <<message_type, spec.minimum_tier, tier>>)>>
                 ELSE <<>>
             missing ==
                 SelectSeq(spec.required_fields, LAMBDA f : FieldMissing(payload, f))
         IN  ordering \o
             [i \in 1..Len(missing) |->
                 Msg("Missing required payload field: '{}'", <<missing[i]>>)]

\* What a renderer returns, or the exception it raises.
Rendered(subject, body_text, body_html) ==
    [raised |-> FALSE, subject |-> subject, body_text |-> body_text,
     body_html |-> body_html]

RenderRaised ==
    [raised |-> TRUE, subject |-> Msg("", <<>>), body_text |-> Msg("", <<>>),
     body_html |-> None]

\* p['f'] succeeds; p['f'].upper() succeeds; float(p['f']) succeeds.
CanIndex(p, fields) == fields \subseteq DOMAIN p
CanUpper(p, f) == f \in DOMAIN p /\ p[f] = "text"
CanFloat(p, f) == f \in DOMAIN p /\ p[f] = "num"

\* The payload values a template interpolates, in order.
Values(p, fields) == [i \in 1..Len(fields) |-> p[fields[i]]]

_html_wrap(title, body_inner) == Msg("<!DOCTYPE html>{}{}", <<title>> \o body_inner)

_render_verify_email(p) ==
    IF ~CanIndex(p, {"verification_url", "expires_in"}) THEN RenderRaised
    ELSE Rendered(Msg("Verify your Swarm Blackjack account", <<>>),
             Msg("Please verify your email address{}{}",
                 Values(p, <<"verification_url", "expires_in">>)),
             Some(_html_wrap("Verify your Swarm Blackjack account",
                 Values(p, <<"verification_url", "expires_in", "verification_url">>))))

_render_magic_link(p) ==
    IF ~CanIndex(p, {"magic_url", "expires_in"}) THEN RenderRaised
    ELSE Rendered(Msg("Your Swarm Blackjack setup link", <<>>),
             Msg("Click the link below{}{}", Values(p, <<"magic_url", "expires_in">>)),
             Some(_html_wrap("Your Swarm Blackjack setup link",
                 Values(p, <<"magic_url", "expires_in">>))))

_render_password_reset(p) ==
    Rendered(Msg("Password reset", <<>>),
        Msg("[STUB - this message type is a honeypot and should never render]{}",
            IF "reset_url" \in DOMAIN p THEN <<p["reset_url"]>> ELSE <<"">>),
        None)

_render_game_invite(p) ==
    IF ~CanIndex(p, {"inviter_name", "table_name", "join_url"}) THEN RenderRaised
    ELSE Rendered(Msg("{} invited you to a game", Values(p, <<"inviter_name">>)),
             Msg("{} has invited you to join their table: {} Join here: {}",
                 Values(p, <<"inviter_name", "table_name", "join_url">>)),
             None)

_render_game_result_notify(p) ==
    IF ~CanUpper(p, "result") \/ ~CanIndex(p, {"net_change"}) \/ ~CanFloat(p, "net_change")
    THEN RenderRaised
    ELSE Rendered(Msg("Game result: {}", Values(p, <<"result">>)),
             Msg("Your recent game has concluded. Result: {} Net change: {}",
                 Values(p, <<"result", "net_change">>)),
             None)

_render_session_summary(p) ==
    IF ~CanFloat(p, "net_result")
       \/ ~CanIndex(p, {"hands_played", "session_start", "session_end"})
    THEN RenderRaised
    ELSE Rendered(Msg("Your session summary", <<>>),
             Msg("Session Summary{}{}{}{}",
                 Values(p, <<"hands_played", "net_result", "session_start",
                             "session_end">>)),
             None)

_render_account_flag_notice(p) ==
    IF ~CanIndex(p, {"reason", "action_taken"}) THEN RenderRaised
    ELSE Rendered(Msg("Important notice regarding your account", <<>>),
             Msg("An action has been taken{}{}", Values(p, <<"reason", "action_taken">>)),
             None)

_render_transaction_receipt(p) ==
    IF ~CanUpper(p, "type")
       \/ ~CanIndex(p, {"transaction_id", "amount", "timestamp", "balance_after"})
    THEN RenderRaised
    ELSE Rendered(Msg("Transaction receipt - {}", Values(p, <<"type">>)),
             Msg("Transaction Receipt{}{}{}{}{}",
                 Values(p, <<"transaction_id", "type", "amount", "timestamp",
                             "balance_after">>)),
             None)

renderers(message_type, p) ==
    CASE message_type = "verify_email"        -> _render_verify_email(p)
      [] message_type = "magic_link"          -> _render_magic_link(p)
      [] message_type = "password_reset"      -> _render_password_reset(p)
      [] message_type = "game_invite"         -> _render_game_invite(p)
      [] message_type = "game_result_notify"  -> _render_game_result_notify(p)
      [] message_type = "session_summary"     -> _render_session_summary(p)
      [] message_type = "account_flag_notice" -> _render_account_flag_notice(p)
      [] message_type = "transaction_receipt" -> _render_transaction_receipt(p)
      [] OTHER                                -> RenderRaised

\* A faulty render: the encryption notice is put in front of every plaintext body.
render_AlwaysNotice(message_type, payload, encrypted) ==
    LET r == renderers(message_type, payload)
    IN  IF r.raised THEN r
        ELSE [r EXCEPT !.body_text =
                 Msg("[This message is encrypted end-to-end]",
                     <<r.body_text.text>> \o r.body_text.args)]

\* The plaintext body: the renderer's text behind the encryption notice, if any.
render(message_type, payload, encrypted) ==
    LET r == renderers(message_type, payload)
    IN  IF r.raised THEN r
        ELSE [r EXCEPT !.body_text =
                 Msg(IF encrypted THEN "[This message is encrypted end-to-end]" ELSE "",
                     <<r.body_text.text>> \o r.body_text.args)]

(***************************************************************************)
(* encryption.py                                                           *)
(***************************************************************************)
EncryptionResult(ciphertext, encrypted, key_id) ==
    [ciphertext |-> ciphertext, encrypted |-> encrypted, key_id |-> key_id]

\* The stub key directory: every user has a key.
_fetch_public_key(user_id) == Some("stub-public-key-for-{user_id}")

\* The stub cipher returns the plaintext.
_encrypt_with_public_key(plaintext, public_key, user_id) == plaintext

\* encrypt, given what _fetch_public_key returned for user_id.
encrypt(body, user_id, public_key) ==
    IF Falsy(public_key)
    THEN EncryptionResult(body, FALSE, None)
    ELSE EncryptionResult(_encrypt_with_public_key(body, Val(public_key), user_id),
                          TRUE, Some(Msg("key-{}", <<user_id>>)))

\* Outcome of GET /users/{user_id}/email: an exception (timeout, HTTP error, bad
\* JSON) or a JSON object whose 'email' member is absent, empty or an address.
DirectoryResponse(raised, email) == [raised |-> raised, email |-> email]

\* A faulty resolve_recipient_address: when the lookup raises, the user id itself
\* is used as the address.
resolve_recipient_address_Fallback(user_id, tier, response) ==
    IF response.raised THEN Some(user_id)
    ELSE IF ~Falsy(response.email) THEN response.email
    ELSE None

\* resolve_recipient_address, given the directory's response.
resolve_recipient_address(user_id, tier, response) ==
    IF response.raised THEN None
    ELSE IF ~Falsy(response.email) THEN response.email
    ELSE None

(***************************************************************************)
(* transport.py                                                            *)
(***************************************************************************)
TransportMessage(to_address, subject, body_text, body_html, message_id, encrypted, tier) ==
    [to_address |-> to_address, subject |-> subject, body_text |-> body_text,
     body_html |-> body_html, message_id |-> message_id, encrypted |-> encrypted,
     tier |-> tier]

TransportResult(success, error) == [success |-> success, error |-> error]

\* What the SMTP session does: accepts the mail, or raises.
SmtpOutcomes == {"sent", "SMTPException", "OSError", "Exception"}

_smtp_send(msg, outcome) ==
    CASE outcome = "sent"          -> TransportResult(TRUE, None)
      [] outcome = "SMTPException" -> TransportResult(FALSE, Some(Msg("SMTP error: {}", <<>>)))
      [] outcome = "OSError"       ->
             TransportResult(FALSE, Some(Msg("Connection failed: {}", <<>>)))

\* deliver catches whatever _smtp_send lets through.
deliver(msg, outcome) ==
    IF outcome \in {"sent", "SMTPException", "OSError"}
    THEN _smtp_send(msg, outcome)
    ELSE TransportResult(FALSE, Some(Msg("{}", <<>>)))

(***************************************************************************)
(* pipeline.py                                                             *)
(***************************************************************************)
\* Faulty REQUIRES_USER_ID tables: a tier is missing, or social tier is there too.
REQUIRES_USER_ID_NoRestricted == {"personal", "confidential"}
REQUIRES_USER_ID_NoPersonal == {"confidential", "restricted"}
REQUIRES_USER_ID_WithSocial == {"social", "personal", "confidential", "restricted"}

REQUIRES_USER_ID == {"personal", "confidential", "restricted"}
REQUIRES_ENCRYPTION == {"confidential", "restricted"}
ENCRYPTION_DEFAULT == {"personal"}

SendRequest(calling_service, request_id, tier, message_type, recipient_type, recipient_value, payload, encryption_waived, waiver_token) ==
    [calling_service |-> calling_service, request_id |-> request_id, tier |-> tier,
     message_type |-> message_type, recipient_type |-> recipient_type,
     recipient_value |-> recipient_value, payload |-> payload,
     encryption_waived |-> encryption_waived, waiver_token |-> waiver_token]

SendResult(status, message_id, enforced_tier, encrypted, error_code, error_message) ==
    [status |-> status, message_id |-> message_id, enforced_tier |-> enforced_tier,
     encrypted |-> encrypted, error_code |-> error_code,
     error_message |-> error_message]

_reject(code, message, enforced_tier) ==
    SendResult("rejected", None, enforced_tier, None, Some(code), Some(message))

\* `enforced_tier in tiers` for an enforced tier that may be None.
TierIn(enforced_tier, tiers) == enforced_tier # None /\ Val(enforced_tier) \in tiers

\* The tier as templates.validate and the f-strings see it.
TierName(enforced_tier) == IF enforced_tier = None THEN "None" ELSE Val(enforced_tier)

(***************************************************************************)
(* The requests a run is started with.                                     *)
(***************************************************************************)
MaxAltered == 1

Services ==
    {"", "test", "game-state", "chat-service", "bank-service", "auth-service",
     "rogue-service"}
RequestIds == {"", "req-1"}
Tiers == DOMAIN TIER_LEVELS \cup {"vip"}
MessageTypeNames == DOMAIN MESSAGE_TYPES \cup {"promo_blast"}
RecipientTypes == {"email", "user_id", "phone"}
RecipientValues == {"", "user-7", "a@x.io"}
WaiverTokens == {None, Some(""), Some("reverify-1")}
Addresses == {"a@x.io", "b@y.io"}

Range(seq) == {seq[i] : i \in 1..Len(seq)}

RequiredFields(message_type) ==
    IF message_type \in DOMAIN MESSAGE_TYPES
    THEN Range(MESSAGE_TYPES[message_type].required_fields) ELSE {}

\* The kind of value a well-behaved caller sends for a field.
UsualKind(field) ==
    IF field \in {"net_change", "net_result", "hands_played", "amount", "balance_after"}
    THEN "num" ELSE "text"

\* The payload a well-behaved caller sends for a message type.
UsualPayload(message_type) ==
    [f \in RequiredFields(message_type) |-> UsualKind(f)]

\* p with the fields of `drop` left out and those of `change` given kind k.
Altered(p, drop, change, k) ==
    [f \in DOMAIN p \ drop |-> IF f \in change THEN k ELSE p[f]]

\* The usual payload of a message type with at most MaxAltered of its fields
\* left out or given a value of another kind.
Payloads(message_type) ==
    LET p == UsualPayload(message_type)
    IN  {Altered(p, drop, change, k) :
            <<drop, change, k>> \in
                {t \in (SUBSET DOMAIN p) \X (SUBSET DOMAIN p) \X ValueKinds :
                    /\ t[1] \cap t[2] = {}
                    /\ Cardinality(t[1]) + Cardinality(t[2]) <= MaxAltered}}

\* The requests that pass step 1: every caller, tier, message type, payload,
\* recipient and waiver option.
WellFormedRequest(r) ==
    \E s \in Services \ {""}, i \in RequestIds \ {""}, t \in DOMAIN TIER_LEVELS,
       m \in MessageTypeNames, rt \in {"email", "user_id"},
       rv \in RecipientValues \ {""}, w \in BOOLEAN, wt \in WaiverTokens :
      \E p \in Payloads(m) :
        r = SendRequest(s, i, t, m, rt, rv, p, w, wt)

\* The requests that fail step 1, each message type with its usual payload.
MalformedRequest(r) ==
    \E s \in Services, i \in RequestIds, t \in Tiers, m \in MessageTypeNames,
       rt \in RecipientTypes, rv \in RecipientValues :
      /\ s = "" \/ i = "" \/ t \notin DOMAIN TIER_LEVELS
            \/ rt \notin {"email", "user_id"} \/ rv = ""
      /\ r = SendRequest(s, i, t, m, rt, rv, UsualPayload(m), FALSE, None)

(***************************************************************************)
(* One run of process(req).  pc is the step process is about to execute;   *)
(* the other variables of the first group are its locals.  The second      *)
(* group records what the run did to the world around it: the number of    *)
(* the last step executed (1 to 9; step 4 is both lookups), the security   *)
(* alerts logged, the calls made (uuid4, the authority, the identity       *)
(* directory, the key directory, the SMTP session) in order, what          *)
(* resolve_recipient_address returned each time, the messages handed to    *)
(* transport.deliver, and what the identity directory answered each time.  *)
(* The third group is a call of a function on its own: its arguments and   *)
(* what it returned.                                                       *)
(***************************************************************************)
VARIABLES pc, req, message_id, auth_result, enforced_tier, resolved_address,
          recipient_user_id, should_encrypt, rendered, final_body,
          actually_encrypted, result, enc_result, transport_result,
          stage, alerts, calls, lookups, outbox, responses,
          args, returned

vars == <<pc, req, message_id, auth_result, enforced_tier, resolved_address,
          recipient_user_id, should_encrypt, rendered, final_body,
          actually_encrypted, result, enc_result, transport_result,
          stage, alerts, calls, lookups, outbox, responses, args, returned>>

Init ==
    /\ pc = "step1"
    /\ \/ WellFormedRequest(req)
       \/ MalformedRequest(req)
    /\ message_id = None
    /\ auth_result = None
    /\ enforced_tier = None
    /\ resolved_address = None
    /\ recipient_user_id = None
    /\ should_encrypt = None
    /\ rendered = None
    /\ final_body = None
    /\ actually_encrypted = FALSE
    /\ result = None
    /\ enc_result = None
    /\ transport_result = None
    /\ stage = 0
    /\ alerts = 0
    /\ calls = <<>>
    /\ lookups = <<>>
    /\ outbox = <<>>
    /\ responses = <<>>
    /\ args = None
    /\ returned = None

\* `return r`
Return(r) == result' = Some(r) /\ pc' = "done"

\* Continue with the step named next.
Goto(next) == pc' = next /\ UNCHANGED result

\* str(uuid.uuid4())
uuid4 == "uuid4-1"

\* A faulty SchemaRejection: the tier name is not checked.
SchemaRejection_NoTierCheck(r) ==
    IF r.calling_service = "" \/ r.request_id = ""
    THEN Some(_reject("invalid_schema",
                  Msg("caller.service and caller.request_id are required", <<>>), None))
    ELSE IF r.recipient_type \notin {"email", "user_id"}
    THEN Some(_reject("invalid_schema",
                  Msg("recipient.type must be 'email' or 'user_id'", <<>>), None))
    ELSE IF r.recipient_value = ""
    THEN Some(_reject("invalid_schema", Msg("recipient.value is required", <<>>), None))
    ELSE None

\* A faulty SchemaRejection: step 1 lets every request through.
SchemaRejection_None(r) == None

\* Step 1, the schema checks: the rejection, or None when the request passes.
SchemaRejection(r) ==
    IF r.calling_service = "" \/ r.request_id = ""
    THEN Some(_reject("invalid_schema",
                  Msg("caller.service and caller.request_id are required", <<>>), None))
    ELSE IF r.tier \notin DOMAIN TIER_LEVELS
    THEN Some(_reject("invalid_schema", Msg("Unknown tier: {}", <<r.tier>>), None))
    ELSE IF r.recipient_type \notin {"email", "user_id"}
    THEN Some(_reject("invalid_schema",
                  Msg("recipient.type must be 'email' or 'user_id'", <<>>), None))
    ELSE IF r.recipient_value = ""
    THEN Some(_reject("invalid_schema", Msg("recipient.value is required", <<>>), None))
    ELSE None

\* Mint the message id, then step 1.
Step1_ValidateSchema ==
    /\ pc = "step1"
    /\ stage' = 1
    /\ message_id' = Some(uuid4)
    /\ calls' = Append(calls, "uuid4")
    /\ IF SchemaRejection(req) # None
       THEN Return(Val(SchemaRejection(req)))
       ELSE Goto("step2")
    /\ UNCHANGED <<req, auth_result, enforced_tier, resolved_address, recipient_user_id,
                   should_encrypt, rendered, final_body, actually_encrypted, alerts,
                   lookups, outbox,
                   enc_result, transport_result, responses, args, returned>>

\* The AuthRequest process builds from the request.
AuthRequestOf(r) ==
    AuthRequest(r.calling_service, r.request_id, r.tier, r.message_type,
                IF r.recipient_type = "user_id" THEN Some(r.recipient_value) ELSE None)

\* `auth_result.reason or "Authorization denied"`
ReasonOrDefault(reason) ==
    IF reason = None THEN Msg("Authorization denied", <<>>)
    ELSE IF Val(reason) = Msg("", <<>>) THEN Msg("Authorization denied", <<>>)
    ELSE Val(reason)

\* Step 2, given what the authority answers to the AuthRequest.
AuthCheck(opa_result) ==
    LET auth_req == AuthRequestOf(req)
        res == check(auth_req, opa_result)
    IN  /\ pc = "step2"
        /\ stage' = 2
        /\ calls' = Append(calls, "opa")
        /\ alerts' = alerts + check_alerts(auth_req)
        /\ auth_result' = Some(res)
        /\ IF ~res.authorized
           THEN /\ Return(_reject("auth_denied", ReasonOrDefault(res.reason), None))
                /\ UNCHANGED enforced_tier
           ELSE /\ enforced_tier' = res.enforced_tier
                /\ Goto("step3")
        /\ UNCHANGED <<req, message_id, resolved_address, recipient_user_id,
                       should_encrypt, rendered, final_body, actually_encrypted,
                       lookups, outbox,
                       enc_result, transport_result, responses, args, returned>>

\* Step 2 with the stub authority of auth.py.
Step2_AuthCheck == AuthCheck(_call_opa(AuthRequestOf(req)))

\* Step 3.
Step3_TierRecipient ==
    /\ pc = "step3"
    /\ stage' = 3
    /\ IF TierIn(enforced_tier, REQUIRES_USER_ID) /\ req.recipient_type # "user_id"
       THEN Return(_reject("invalid_recipient",
                       Msg("{} tier requires registered user_id recipient, not raw email",
                           <<TierName(enforced_tier)>>),
                       enforced_tier))
       ELSE Goto("step4")
    /\ UNCHANGED <<req, message_id, auth_result, enforced_tier, resolved_address,
                   recipient_user_id, should_encrypt, rendered, final_body,
                   actually_encrypted, alerts, calls, lookups, outbox,
                   enc_result, transport_result, responses, args, returned>>

\* What the identity directory may answer.
DirectoryResponses ==
    {DirectoryResponse(TRUE, None)} \cup
    {DirectoryResponse(FALSE, e) : e \in {None, Some("")} \cup {Some(a) : a \in Addresses}}

\* A faulty AfterResolve: the restricted-tier lookup is never made.
AfterResolve_SkipRestricted == "step5"

\* Where process goes after step 4's first half.
AfterResolve == IF enforced_tier = Some("restricted") THEN "step4r" ELSE "step5"

\* Step 4 for a user_id recipient: ask the identity directory.
Step4_ResolveUser ==
    /\ pc = "step4"
    /\ stage' = 4
    /\ req.recipient_type = "user_id"
    /\ \E response \in DirectoryResponses :
         LET address ==
                 resolve_recipient_address(req.recipient_value, enforced_tier, response)
         IN  /\ calls' = Append(calls, "directory")
             /\ responses' = Append(responses, response)
             /\ lookups' = Append(lookups, address)
             /\ IF Falsy(address)
                THEN /\ Return(_reject("recipient_not_found",
                                   Msg("No registered address for user {}",
                                       <<req.recipient_value>>),
                                   enforced_tier))
                     /\ UNCHANGED <<resolved_address, recipient_user_id>>
                ELSE /\ resolved_address' = address
                     /\ recipient_user_id' = Some(req.recipient_value)
                     /\ Goto(AfterResolve)
    /\ UNCHANGED <<req, message_id, auth_result, enforced_tier, should_encrypt,
                   rendered, final_body, actually_encrypted, alerts, outbox,
                   enc_result, transport_result, args, returned>>

\* Step 4 for an address literal: the address is the recipient value.
Step4_ResolveLiteral ==
    /\ pc = "step4"
    /\ stage' = 4
    /\ req.recipient_type # "user_id"
    /\ resolved_address' = Some(req.recipient_value)
    /\ recipient_user_id' = None
    /\ Goto(AfterResolve)
    /\ UNCHANGED <<req, message_id, auth_result, enforced_tier, should_encrypt,
                   rendered, final_body, actually_encrypted, alerts, calls, lookups,
                   outbox,
                   enc_result, transport_result, responses, args, returned>>

\* A faulty RestrictedCheck: a missing registered address counts as a mismatch.
RestrictedCheck_NoNotFound(resolved, registered) ==
    IF resolved # registered THEN "restricted_address_mismatch" ELSE "ok"

\* A faulty RestrictedCheck: the two addresses are not compared.
RestrictedCheck_NoMismatch(resolved, registered) ==
    IF Falsy(registered) THEN "recipient_not_found" ELSE "ok"

\* The restricted-tier checks on the registered address: the rejection code, or "ok".
RestrictedCheck(resolved, registered) ==
    IF Falsy(registered) THEN "recipient_not_found"
    ELSE IF resolved # registered THEN "restricted_address_mismatch"
    ELSE "ok"

\* Step 4 at restricted tier: look the registered address up and compare.
Step4_Restricted ==
    /\ pc = "step4r"
    /\ stage' = 4
    /\ \E response \in DirectoryResponses :
         LET registered_address ==
                 resolve_recipient_address(req.recipient_value, "restricted", response)
             verdict == RestrictedCheck(resolved_address, registered_address)
         IN  /\ calls' = Append(calls, "directory")
             /\ responses' = Append(responses, response)
             /\ lookups' = Append(lookups, registered_address)
             /\ IF verdict = "recipient_not_found"
                THEN /\ Return(_reject("recipient_not_found",
                                   Msg("No registered address on account for {}",
                                       <<req.recipient_value>>),
                                   enforced_tier))
                     /\ UNCHANGED resolved_address
                ELSE IF verdict = "restricted_address_mismatch"
                THEN /\ Return(_reject("restricted_address_mismatch",
                                   Msg("Restricted tier: resolved address does not match account registered address",
                                       <<>>),
                                   enforced_tier))
                     /\ UNCHANGED resolved_address
                ELSE /\ resolved_address' = registered_address
                     /\ Goto("step5")
    /\ UNCHANGED <<req, message_id, auth_result, enforced_tier, recipient_user_id,
                   should_encrypt, rendered, final_body, actually_encrypted, alerts,
                   outbox, enc_result, transport_result, args, returned>>

\* A faulty IsUnknownTypeError: no error is recognised as the unknown-type error.
IsUnknownTypeError_Never(error) == FALSE

\* `"Unknown message type" not in errors[0]`, negated.
IsUnknownTypeError(error) == error.text = "Unknown message type: {}"

\* A faulty ValidationTier: the payload is validated against the requested tier.
ValidationTier_Requested == req.tier

\* The tier step 5 passes to validate.
ValidationTier == TierName(enforced_tier)

\* Step 5.
Step5_ValidatePayload ==
    LET errors == validate(req.message_type, ValidationTier, req.payload)
    IN  /\ pc = "step5"
        /\ stage' = 5
        /\ IF errors # <<>>
           THEN Return(_reject(IF ~IsUnknownTypeError(errors[1])
                               THEN "payload_validation_failed"
                               ELSE "unknown_message_type",
                               Join(errors), enforced_tier))
           ELSE Goto("step6")
        /\ UNCHANGED <<req, message_id, auth_result, enforced_tier, resolved_address,
                       recipient_user_id, should_encrypt, rendered, final_body,
                       actually_encrypted, alerts, calls, lookups, outbox,
                       enc_result, transport_result, responses, args, returned>>

\* A faulty EncryptionDecision: the waiver is honoured at every encrypting tier.
EncryptionDecision_WaiverAnyTier(tier, encryption_waived, waiver_token) ==
    IF TierIn(tier, REQUIRES_ENCRYPTION \cup ENCRYPTION_DEFAULT)
    THEN IF encryption_waived
         THEN IF Falsy(waiver_token) THEN "reject" ELSE "plain"
         ELSE "encrypt"
    ELSE "plain"

\* Step 6: "encrypt", "plain", or "reject" for a waiver without a token.
EncryptionDecision(tier, encryption_waived, waiver_token) ==
    IF TierIn(tier, REQUIRES_ENCRYPTION) THEN "encrypt"
    ELSE IF TierIn(tier, ENCRYPTION_DEFAULT)
    THEN IF encryption_waived
         THEN IF Falsy(waiver_token) THEN "reject" ELSE "plain"
         ELSE "encrypt"
    ELSE "plain"

Step6_DecideEncryption ==
    LET decision ==
            EncryptionDecision(enforced_tier, req.encryption_waived, req.waiver_token)
    IN  /\ pc = "step6"
        /\ stage' = 6
        /\ IF decision = "reject"
           THEN /\ Return(_reject("waiver_token_invalid",
                              Msg("encryption_waived=true requires a waiver_token", <<>>),
                              enforced_tier))
                /\ UNCHANGED should_encrypt
           ELSE /\ should_encrypt' = Some(decision = "encrypt")
                /\ Goto("step7")
        /\ UNCHANGED <<req, message_id, auth_result, enforced_tier, resolved_address,
                       recipient_user_id, rendered, final_body, actually_encrypted,
                       alerts, calls, lookups, outbox,
                       enc_result, transport_result, responses, args, returned>>

\* Step 7: render, or leave process by the renderer's exception.
Step7_Render ==
    LET r == render(req.message_type, req.payload, Val(should_encrypt))
    IN  /\ pc = "step7"
        /\ stage' = 7
        /\ IF r.raised
           THEN /\ pc' = "raised"
                /\ UNCHANGED <<result, rendered>>
           ELSE /\ rendered' = Some(r)
                /\ Goto("step8")
        /\ UNCHANGED <<req, message_id, auth_result, enforced_tier, resolved_address,
                       recipient_user_id, should_encrypt, final_body,
                       actually_encrypted, alerts, calls, lookups, outbox,
                       enc_result, transport_result, responses, args, returned>>

\* Step 8 when the decision was not to encrypt.
Step8_Plain ==
    /\ pc = "step8"
    /\ stage' = 8
    /\ ~Val(should_encrypt)
    /\ final_body' = Some(Val(rendered).body_text)
    /\ actually_encrypted' = FALSE
    /\ Goto("step9")
    /\ UNCHANGED <<req, message_id, auth_result, enforced_tier, resolved_address,
                   recipient_user_id, should_encrypt, rendered, alerts, calls, lookups,
                   outbox,
                   enc_result, transport_result, responses, args, returned>>

\* A faulty EncryptionFailed: the result of encrypt is not looked at.
EncryptionFailed_Never(enc) == FALSE

\* `not enc_result.encrypted`
EncryptionFailed(enc) == ~enc.encrypted

\* Step 8 when the decision was to encrypt, given what the key directory answers.
Encrypt(public_key) ==
    /\ pc = "step8"
    /\ stage' = 8
    /\ Val(should_encrypt)
    /\ IF Falsy(recipient_user_id)
       THEN /\ Return(_reject("encryption_key_missing",
                          Msg("Cannot encrypt: no user_id to look up public key", <<>>),
                          enforced_tier))
            /\ UNCHANGED <<final_body, actually_encrypted, calls, enc_result>>
       ELSE LET enc ==
                    encrypt(Val(rendered).body_text, Val(recipient_user_id), public_key)
            IN  /\ calls' = Append(calls, "key")
                /\ enc_result' = Some(enc)
                /\ IF EncryptionFailed(enc)
                   THEN /\ Return(_reject("encryption_key_missing",
                                      Msg("No public key on record for user {}",
                                          <<Val(recipient_user_id)>>),
                                      enforced_tier))
                        /\ UNCHANGED <<final_body, actually_encrypted>>
                   ELSE /\ final_body' = Some(enc.ciphertext)
                        /\ actually_encrypted' = enc.encrypted
                        /\ Goto("step9")
    /\ UNCHANGED <<req, message_id, auth_result, enforced_tier, resolved_address,
                   recipient_user_id, should_encrypt, rendered, alerts, lookups, outbox,
                   transport_result, responses, args, returned>>

\* Step 8 with the stub key directory of encryption.py.
Step8_Encrypt ==
    Encrypt(IF recipient_user_id = None THEN None
            ELSE _fetch_public_key(Val(recipient_user_id)))

\* A faulty AttachedHtml: the rich body is attached whatever the encryption.
AttachedHtml_Always(body_html, encrypted) == body_html

\* The rich body process attaches to the outgoing message.
AttachedHtml(body_html, encrypted) == IF ~encrypted THEN body_html ELSE None

\* A faulty TransportFailed: the result of deliver is not looked at.
TransportFailed_Never(delivered) == FALSE

\* `not transport_result.success`
TransportFailed(delivered) == ~delivered.success

\* A faulty TransportMessageId: the outgoing message gets an id of its own.
TransportMessageId_Fresh == "uuid4-2"

\* `message_id=message_id`: the id the outgoing message carries.
TransportMessageId == Val(message_id)

\* A faulty Step9_Transport: a failed handoff is attempted again.
Step9_Transport_Retry ==
    /\ pc = "step9"
    /\ stage' = 9
    /\ \E outcome \in SmtpOutcomes :
         LET msg == TransportMessage(Val(resolved_address), Val(rendered).subject,
                        Val(final_body),
                        AttachedHtml(Val(rendered).body_html, actually_encrypted),
                        TransportMessageId, actually_encrypted, TierName(enforced_tier))
             delivered == deliver(msg, outcome)
         IN  /\ calls' = Append(calls, "smtp")
             /\ outbox' = Append(outbox, msg)
             /\ transport_result' = Some(delivered)
             /\ IF TransportFailed(delivered)
                THEN Goto("step9")
                ELSE Return(SendResult("queued", message_id, enforced_tier,
                                Some(actually_encrypted), None, None))
    /\ UNCHANGED <<req, message_id, auth_result, enforced_tier, resolved_address,
                   recipient_user_id, should_encrypt, rendered, final_body,
                   actually_encrypted, alerts, lookups,
                   enc_result, responses, args, returned>>

\* Step 9: hand the message to transport.deliver.
Step9_Transport ==
    /\ pc = "step9"
    /\ stage' = 9
    /\ \E outcome \in SmtpOutcomes :
         LET msg == TransportMessage(Val(resolved_address), Val(rendered).subject,
                        Val(final_body),
                        AttachedHtml(Val(rendered).body_html, actually_encrypted),
                        TransportMessageId, actually_encrypted, TierName(enforced_tier))
             delivered == deliver(msg, outcome)
         IN  /\ calls' = Append(calls, "smtp")
             /\ outbox' = Append(outbox, msg)
             /\ transport_result' = Some(delivered)
             /\ IF TransportFailed(delivered)
                THEN Return(SendResult("error", message_id, enforced_tier,
                                Some(actually_encrypted), Some("smtp_unavailable"),
                                delivered.error))
                ELSE Return(SendResult("queued", message_id, enforced_tier,
                                Some(actually_encrypted), None, None))
    /\ UNCHANGED <<req, message_id, auth_result, enforced_tier, resolved_address,
                   recipient_user_id, should_encrypt, rendered, final_body,
                   actually_encrypted, alerts, lookups,
                   enc_result, responses, args, returned>>

Next ==
    \/ Step1_ValidateSchema
    \/ Step2_AuthCheck
    \/ Step3_TierRecipient
    \/ Step4_ResolveUser
    \/ Step4_ResolveLiteral
    \/ Step4_Restricted
    \/ Step5_ValidatePayload
    \/ Step6_DecideEncryption
    \/ Step7_Render
    \/ Step8_Plain
    \/ Step8_Encrypt
    \/ Step9_Transport

Spec == Init /\ [][Next]_vars

\* What a key directory may answer: no key on record, or a key.
KeyResponses == {None, Some("public-key-1")}

\* Step 8 with a key directory that has keys for some users only.
Step8_EncryptKeyDirectory == \E public_key \in KeyResponses : Encrypt(public_key)

NextKeyDirectory ==
    \/ Step1_ValidateSchema
    \/ Step2_AuthCheck
    \/ Step3_TierRecipient
    \/ Step4_ResolveUser
    \/ Step4_ResolveLiteral
    \/ Step4_Restricted
    \/ Step5_ValidatePayload
    \/ Step6_DecideEncryption
    \/ Step7_Render
    \/ Step8_Plain
    \/ Step8_EncryptKeyDirectory
    \/ Step9_Transport

\* The service with the stub key directory replaced by a real one.
SpecKeyDirectory == Init /\ [][NextKeyDirectory]_vars

(***************************************************************************)
(* The service with the stub authority replaced by a production one, which *)
(* may deny any request and may enforce a tier other than the requested    *)
(* one.                                                                    *)
(***************************************************************************)
AuthorityResponses ==
    {AuthResult(FALSE, None, Some(Msg("denied by policy", <<>>)), FALSE, None)} \cup
    {AuthResult(TRUE, Some(t), None, FALSE, None) : t \in DOMAIN TIER_LEVELS}

\* The callers of the runs checked against the production authority.
AuthorityCallers == {"test", "rogue-service"}

InitAuthority ==
    /\ Init
    /\ req.calling_service \in AuthorityCallers

\* Step 2 with an authority that answers as it likes.
Step2_AuthCheckAuthority == \E opa_result \in AuthorityResponses : AuthCheck(opa_result)

NextAuthority ==
    \/ Step1_ValidateSchema
    \/ Step2_AuthCheckAuthority
    \/ Step3_TierRecipient
    \/ Step4_ResolveUser
    \/ Step4_ResolveLiteral
    \/ Step4_Restricted
    \/ Step5_ValidatePayload
    \/ Step6_DecideEncryption
    \/ Step7_Render
    \/ Step8_Plain
    \/ Step8_EncryptKeyDirectory
    \/ Step9_Transport

SpecAuthority == InitAuthority /\ [][NextAuthority]_vars

(***************************************************************************)
(* templates.validate on its own: called once with any message type, any   *)
(* tier name and any payload over the type's required fields and one field *)
(* the registry does not know.                                             *)
(***************************************************************************)
AnyPayloads(message_type) ==
    UNION {[fields -> ValueKinds] :
              fields \in SUBSET (RequiredFields(message_type) \cup {"note"})}

InitValidate ==
    /\ pc = "call"
    /\ \E m \in MessageTypeNames, t \in Tiers :
         \E p \in AnyPayloads(m) :
            args = Some([message_type |-> m, tier |-> t, payload |-> p])
    /\ returned = None
    /\ req = None
    /\ message_id = None
    /\ auth_result = None
    /\ enforced_tier = None
    /\ resolved_address = None
    /\ recipient_user_id = None
    /\ should_encrypt = None
    /\ rendered = None
    /\ final_body = None
    /\ actually_encrypted = FALSE
    /\ result = None
    /\ enc_result = None
    /\ transport_result = None
    /\ stage = 0
    /\ alerts = 0
    /\ calls = <<>>
    /\ lookups = <<>>
    /\ outbox = <<>>
    /\ responses = <<>>

\* errors = validate(message_type, tier, payload)
Validate ==
    /\ pc = "call"
    /\ returned' =
           Some(validate(Val(args).message_type, Val(args).tier, Val(args).payload))
    /\ pc' = "returned"
    /\ UNCHANGED <<req, message_id, auth_result, enforced_tier, resolved_address,
                   recipient_user_id, should_encrypt, rendered, final_body,
                   actually_encrypted, result, enc_result, transport_result, stage,
                   alerts, calls, lookups, outbox, responses, args>>

NextValidate == Validate

SpecValidate == InitValidate /\ [][NextValidate]_vars

(***************************************************************************)
(* templates.render on its own: called once with any message type, any     *)
(* payload and either value of the encrypted flag.                         *)
(***************************************************************************)
\* No run of process is under way.
NoRun ==
    /\ req = None
    /\ message_id = None
    /\ auth_result = None
    /\ enforced_tier = None
    /\ resolved_address = None
    /\ recipient_user_id = None
    /\ should_encrypt = None
    /\ rendered = None
    /\ final_body = None
    /\ actually_encrypted = FALSE
    /\ result = None
    /\ enc_result = None
    /\ transport_result = None
    /\ stage = 0
    /\ alerts = 0
    /\ calls = <<>>
    /\ lookups = <<>>
    /\ outbox = <<>>
    /\ responses = <<>>

\* What is left alone by a function called on its own.
run_vars ==
    <<req, message_id, auth_result, enforced_tier, resolved_address,
      recipient_user_id, should_encrypt, rendered, final_body, actually_encrypted,
      result, enc_result, transport_result, stage, alerts, calls, lookups, outbox,
      responses>>

InitRender ==
    /\ pc = "call render"
    /\ \E m \in MessageTypeNames, encrypted \in BOOLEAN :
         \E p \in AnyPayloads(m) :
            args = Some([message_type |-> m, payload |-> p, encrypted |-> encrypted])
    /\ returned = None
    /\ NoRun

\* subject, body, body_html = render(message_type, payload, encrypted)
Render ==
    /\ pc = "call render"
    /\ returned' =
           Some(render(Val(args).message_type, Val(args).payload, Val(args).encrypted))
    /\ pc' = "returned"
    /\ UNCHANGED <<run_vars, args>>

NextRender == Render

SpecRender == InitRender /\ [][NextRender]_vars

(***************************************************************************)
(* dealer-ai/main.py: dealer_decision on its own, called once with any     *)
(* hand of at most MaxHand cards.  A card is its rank; "hidden" is the     *)
(* face-down card, "joker" a rank the table does not have.                 *)
(***************************************************************************)
RANK_VALUES ==
    "A" :> 11 @@ "2" :> 2 @@ "3" :> 3 @@ "4" :> 4 @@ "5" :> 5 @@ "6" :> 6 @@
    "7" :> 7 @@ "8" :> 8 @@ "9" :> 9 @@ "10" :> 10 @@ "J" :> 10 @@ "Q" :> 10 @@
    "K" :> 10

\* The for loop of evaluate_hand: the total with every ace as 11, and the aces.
RECURSIVE CountCards(_)
CountCards(cards) ==
    IF cards = <<>> THEN [total |-> 0, aces |-> 0]
    ELSE LET rest == CountCards(SubSeq(cards, 1, Len(cards) - 1))
             rank == cards[Len(cards)]
         IN  IF rank = "hidden" THEN rest
             ELSE IF rank = "A"
             THEN [total |-> rest.total + 11, aces |-> rest.aces + 1]
             ELSE [rest EXCEPT !.total =
                      @ + (IF rank \in DOMAIN RANK_VALUES THEN RANK_VALUES[rank] ELSE 0)]

\* The while loop of evaluate_hand.
RECURSIVE DowngradeAces(_, _, _)
DowngradeAces(total, aces_used, aces) ==
    IF total > 21 /\ aces_used < aces
    THEN DowngradeAces(total - 10, aces_used + 1, aces)
    ELSE [total |-> total, aces_used |-> aces_used]

evaluate_hand(cards) ==
    LET counted == CountCards(cards)
        final == DowngradeAces(counted.total, 0, counted.aces)
    IN  [total |-> final.total,
         soft |-> final.aces_used < counted.aces /\ final.total <= 21]

Decision(action, handValue, isSoft, reasoning) ==
    [action |-> action, handValue |-> handValue, isSoft |-> isSoft,
     reasoning |-> reasoning]

\* A faulty dealer_decision: the dealer stands on a soft 17.
dealer_decision_StandOnSoft17(hand) ==
    LET total == evaluate_hand(hand).total
        is_soft == evaluate_hand(hand).soft
    IN  IF total > 21
        THEN Decision("bust", total, is_soft, Msg("Dealer busts with {}", <<total>>))
        ELSE IF total < 17
        THEN Decision("hit", total, is_soft,
                 Msg("Dealer hits on {} (below 17)", <<total>>))
        ELSE Decision("stand", total, is_soft, Msg("Dealer stands on {}", <<total>>))

dealer_decision(hand) ==
    LET total == evaluate_hand(hand).total
        is_soft == evaluate_hand(hand).soft
    IN  IF total > 21
        THEN Decision("bust", total, is_soft, Msg("Dealer busts with {}", <<total>>))
        ELSE IF total < 17
        THEN Decision("hit", total, is_soft,
                 Msg("Dealer hits on {} (below 17)", <<total>>))
        ELSE IF total = 17 /\ is_soft
        THEN Decision("hit", total, TRUE, Msg("Dealer hits soft 17 (house rule)", <<>>))
        ELSE Decision("stand", total, is_soft, Msg("Dealer stands on {}", <<total>>))

\* The longest hand dealt.
MaxHand == 4

\* The ranks a card of a hand may have.
CardRanks == DOMAIN RANK_VALUES \cup {"hidden", "joker"}

Hands == UNION {[1..n -> CardRanks] : n \in 0..MaxHand}

InitDealer ==
    /\ pc = "call dealer_decision"
    /\ \E hand \in Hands : args = Some([hand |-> hand])
    /\ returned = None
    /\ NoRun

\* decision = dealer_decision(hand)
Decide ==
    /\ pc = "call dealer_decision"
    /\ returned' = Some(dealer_decision(Val(args).hand))
    /\ pc' = "returned"
    /\ UNCHANGED <<run_vars, args>>

NextDealer == Decide

SpecDealer == InitDealer /\ [][NextDealer]_vars

(***************************************************************************)
(* Properties.                                                             *)
(***************************************************************************)
Called(name) == name \in Range(calls)

\* process returned a rejection with this error code.
Rejected(code) ==
    /\ pc = "done"
    /\ Val(result).status = "rejected"
    /\ Val(result).error_code = Some(code)

\* The request meets the four conditions of step 1.
PassesSchema(r) ==
    /\ r.calling_service # "" /\ r.request_id # ""
    /\ r.tier \in {"system", "social", "personal", "confidential", "restricted"}
    /\ r.recipient_type \in {"email", "user_id"}
    /\ r.recipient_value # ""

IsHoneypot(r) == r.message_type \in HONEYPOT_MESSAGE_TYPES

Authorized == auth_result # None /\ Val(auth_result).authorized

\* C1: for a honeypot message type, check answers not authorized, without an
\* enforced tier, with the security alert flag and the fixed reason, whatever the
\* authority answered, and logs the alert exactly once; the run is rejected with
\* auth_denied and never reaches resolution, rendering or transport.
C1_HoneypotOverridesAuthority ==
    IsHoneypot(req) =>
        /\ pc \in {"step1", "step2", "done"}
        /\ stage <= 2
        /\ ~Called("directory") /\ ~Called("key") /\ ~Called("smtp")
        /\ rendered = None /\ outbox = <<>>
        /\ alerts = (IF stage = 2 THEN 1 ELSE 0)
        /\ stage = 2 =>
             /\ Val(auth_result).authorized = FALSE
             /\ Val(auth_result).enforced_tier = None
             /\ Val(auth_result).security_alert = TRUE
             /\ Val(auth_result).reason = Some(Msg("Message type not available", <<>>))
             /\ Rejected("auth_denied")

\* A honeypot request the authority would have approved has been through check.
C1_Witness ==
    /\ IsHoneypot(req)
    /\ stage = 2
    /\ _call_opa(AuthRequestOf(req)).authorized
    /\ Rejected("auth_denied")

\* The SendResult of a request the stub authority denies for caller s and tier t.
PolicyDenialResult(s, t) ==
    _reject("auth_denied",
        ReasonOrDefault(_call_opa(AuthRequest(s, "req-1", t, "game_invite", None)).reason),
        None)

\* C2: the SendResult of a honeypot request that passed step 1 is the SendResult
\* of every request denied by the caller/tier policy: status, message id,
\* enforced tier, encrypted flag, error code and error message are the same.
C2_HoneypotIndistinguishable ==
    (IsHoneypot(req) /\ pc = "done" /\ stage = 2) =>
        \A s \in Services \ {""}, t \in DOMAIN TIER_LEVELS :
            t \notin (IF s \in DOMAIN CALLER_TIER_POLICY THEN CALLER_TIER_POLICY[s] ELSE {})
                => Val(result) = PolicyDenialResult(s, t)

\* C3 as stated: every honeypot request ends rejected with auth_denied and an
\* alert logged.
C3_EveryHoneypotRequestDenied ==
    (IsHoneypot(req) /\ pc = "done") => (Rejected("auth_denied") /\ alerts >= 1)

\* C3: every honeypot request that passes the schema checks of step 1, for any
\* tier and any caller, ends rejected with auth_denied, and one security alert is
\* logged for it.
C3_HoneypotScenarioD ==
    (IsHoneypot(req) /\ PassesSchema(req)) =>
        /\ pc \in {"step1", "step2", "done"}
        /\ pc = "done" => (Rejected("auth_denied") /\ alerts = 1)

\* A honeypot request of a caller outside the policy table, at the top tier, ended.
C3_Witness ==
    /\ IsHoneypot(req) /\ PassesSchema(req)
    /\ req.calling_service = "rogue-service" /\ req.tier = "restricted"
    /\ pc = "done"

\* C4: a message handed to transport at restricted tier goes to the address the
\* registered-address lookup (the second lookup) returned for the identity, and
\* the recipient was an identity, not an address literal.
C4_RestrictedAddressPinned ==
    \A i \in DOMAIN outbox :
        outbox[i].tier = "restricted" =>
            /\ req.recipient_type = "user_id"
            /\ Len(lookups) = 2
            /\ lookups[2] = Some(outbox[i].to_address)

C4_Witness ==
    /\ outbox # <<>>
    /\ outbox[1].tier = "restricted"
    /\ Len(lookups) = 2

\* The two restricted-tier lookups returned different non-empty addresses.
RestrictedLookupsDiffer ==
    /\ enforced_tier = Some("restricted")
    /\ Len(lookups) = 2
    /\ ~Falsy(lookups[1]) /\ ~Falsy(lookups[2])
    /\ lookups[1] # lookups[2]

\* C5: at restricted tier, when the first resolution and the registered-address
\* lookup return different non-empty addresses, process returns rejected with
\* restricted_address_mismatch and nothing is handed to transport.
C5_RestrictedMismatchRejected ==
    RestrictedLookupsDiffer =>
        /\ Rejected("restricted_address_mismatch")
        /\ stage = 4
        /\ outbox = <<>> /\ ~Called("smtp")

C5_Witness == RestrictedLookupsDiffer /\ pc = "done"

\* A request at restricted tier from a permitted caller with an address literal
\* has returned.
RestrictedLiteralReturned ==
    /\ pc = "done"
    /\ PassesSchema(req)
    /\ req.tier = "restricted" /\ req.recipient_type = "email"
    /\ Authorized

\* C6 as stated: such a request ends rejected with restricted_address_mismatch.
C6_RestrictedLiteralMismatch ==
    RestrictedLiteralReturned => Rejected("restricted_address_mismatch")

\* C6: a request with tier restricted from a permitted caller whose recipient is
\* an address literal ends rejected with invalid_recipient, at step 3, before the
\* account record is looked up.
C6_RestrictedLiteralInvalidRecipient ==
    RestrictedLiteralReturned =>
        /\ Rejected("invalid_recipient")
        /\ stage = 3
        /\ lookups = <<>>

C6_Witness ==
    /\ RestrictedLiteralReturned
    /\ req.recipient_value = "a@x.io"
    /\ Rejected("invalid_recipient")

\* C7: an authorized request whose enforced tier is personal, confidential or
\* restricted and whose recipient is an address literal is rejected with
\* invalid_recipient at step 3, and the identity directory has not been called.
C7_LiteralRejectedBeforeResolution ==
    ( /\ Authorized
      /\ enforced_tier \in {Some("personal"), Some("confidential"), Some("restricted")}
      /\ req.recipient_type = "email" ) =>
        /\ pc = "step3" \/ (Rejected("invalid_recipient") /\ stage = 3)
        /\ ~Called("directory")
        /\ lookups = <<>>

C7_Witness ==
    /\ Authorized
    /\ enforced_tier = Some("personal")
    /\ req.recipient_type = "email"
    /\ Rejected("invalid_recipient")

\* C8: a message handed to transport with encrypted = true has no rich body, and
\* a result with encrypted = true belongs to a delivery of such a message.
C8_EncryptedHasNoHtml ==
    /\ \A i \in DOMAIN outbox : outbox[i].encrypted => outbox[i].body_html = None
    /\ (result # None /\ Val(result).encrypted = Some(TRUE)) =>
           /\ Len(outbox) = 1
           /\ outbox[1].encrypted
           /\ outbox[1].body_html = None

\* An encrypted message of a type whose renderer produced HTML was handed over.
C8_Witness ==
    /\ outbox # <<>>
    /\ outbox[1].encrypted
    /\ Val(rendered).body_html # None
    /\ result # None /\ Val(result).encrypted = Some(TRUE)

\* The decision table of step 6.
DecisionTable(tier, waived, token) ==
    CASE tier \in {"confidential", "restricted"} -> "encrypt"
      [] tier = "personal" /\ ~waived -> "encrypt"
      [] tier = "personal" /\ waived /\ token \notin {None, Some("")} -> "plain"
      [] tier = "personal" /\ waived /\ token \in {None, Some("")} -> "reject"
      [] tier \in {"system", "social"} -> "plain"

\* C9: once step 6 has run, its outcome is the decision table's for the enforced
\* tier, the waiver flag and the waiver token: a rejection with
\* waiver_token_invalid, or the decision to encrypt or not.
C9_EncryptionDecisionTable ==
    IF stage < 6
    THEN should_encrypt = None /\ ~Rejected("waiver_token_invalid")
    ELSE LET expected ==
                 DecisionTable(Val(enforced_tier), req.encryption_waived, req.waiver_token)
         IN  /\ expected = "reject" =>
                    (Rejected("waiver_token_invalid") /\ stage = 6 /\ should_encrypt = None)
             /\ expected = "encrypt" =>
                    (should_encrypt = Some(TRUE) /\ ~Rejected("waiver_token_invalid"))
             /\ expected = "plain" =>
                    (should_encrypt = Some(FALSE) /\ ~Rejected("waiver_token_invalid"))

\* A waiver without a token was ignored at confidential tier.
C9_Witness ==
    /\ stage >= 6
    /\ enforced_tier = Some("confidential")
    /\ req.encryption_waived /\ req.waiver_token = None
    /\ should_encrypt = Some(TRUE)

\* The tier allows a message with this encrypted flag to leave.
EncryptionSufficient(tier, encrypted) ==
    /\ tier \in {"confidential", "restricted"} => encrypted
    /\ tier = "personal" =>
           encrypted \/ (req.encryption_waived /\ req.waiver_token \notin {None, Some("")})

\* C10: every message handed to transport at confidential or restricted tier is
\* encrypted, every one at personal tier is encrypted unless the request waived
\* encryption with a non-empty token, and every queued result relates enforced
\* tier and encrypted flag the same way.
C10_NoPlaintextAtEncryptingTier ==
    /\ \A i \in DOMAIN outbox : EncryptionSufficient(outbox[i].tier, outbox[i].encrypted)
    /\ (result # None /\ Val(result).status = "queued") =>
           EncryptionSufficient(Val(Val(result).enforced_tier), Val(Val(result).encrypted))

C10_Witness ==
    /\ result # None /\ Val(result).status = "queued"
    /\ Val(result).enforced_tier = Some("confidential")
    /\ outbox # <<>> /\ outbox[1].encrypted

\* C11: when step 6 decided to encrypt and encrypt found no public key for the
\* recipient (it returned encrypted = false), process returns rejected with code
\* encryption_key_missing and nothing is handed to transport.deliver.
C11_KeyMissingRejected ==
    (should_encrypt = Some(TRUE) /\ enc_result # None /\ ~Val(enc_result).encrypted) =>
        /\ Rejected("encryption_key_missing")
        /\ ~Called("smtp")
        /\ outbox = <<>>

C11_Witness ==
    /\ should_encrypt = Some(TRUE)
    /\ Called("key")
    /\ enc_result # None /\ ~Val(enc_result).encrypted
    /\ pc = "done"

\* The rank the tier order gives a tier name; a name it does not know ranks 0.
RankOf(tier) ==
    CASE tier = "system" -> 1
      [] tier = "social" -> 2
      [] tier = "personal" -> 3
      [] tier = "confidential" -> 4
      [] tier = "restricted" -> 5
      [] OTHER -> 0

\* The positions, in the registry's field order, of the required fields of
\* message type m that payload p leaves out or maps to null.
MissingPositions(m, p) ==
    {i \in DOMAIN MESSAGE_TYPES[m].required_fields :
        LET f == MESSAGE_TYPES[m].required_fields[i]
        IN  f \notin DOMAIN p \/ p[f] = "null"}

\* The k-th smallest element of a set of numbers.
Nth(positions, k) ==
    CHOOSE i \in positions : Cardinality({j \in positions : j < i}) = k - 1

\* C12: for a registered message type, validate returns one ordering error exactly
\* when the tier ranks below the type's minimum tier (an unknown tier name ranks
\* below every tier), followed by one missing-field error for each required field
\* absent or null, in the registry's field order, and nothing else; so the list is
\* empty exactly when the tier suffices and no required field is missing.
C12_ValidateErrors ==
    (returned # None /\ Val(args).message_type \in DOMAIN MESSAGE_TYPES) =>
        LET m == Val(args).message_type
            t == Val(args).tier
            p == Val(args).payload
            errors == Val(returned)
            low == RankOf(t) < RankOf(MESSAGE_TYPES[m].minimum_tier)
            shift == IF low THEN 1 ELSE 0
            missing == MissingPositions(m, p)
        IN  /\ Len(errors) = shift + Cardinality(missing)
            /\ low => errors[1] =
                   Msg("Message type '{}' requires minimum tier '{}', got '{}'",
                       <<m, MESSAGE_TYPES[m].minimum_tier, t>>)
            /\ \A k \in 1..Cardinality(missing) :
                   errors[shift + k] =
                       Msg("Missing required payload field: '{}'",
                           <<MESSAGE_TYPES[m].required_fields[Nth(missing, k)]>>)
            /\ errors = <<>> <=> (~low /\ missing = {})

\* validate returned the ordering error followed by two missing-field errors, one
\* of them for a field mapped to null, for a tier name the tier order does not know.
C12_Witness ==
    /\ returned # None
    /\ Val(args).message_type = "transaction_receipt"
    /\ Val(args).tier = "vip"
    /\ DOMAIN Val(args).payload = {"transaction_id", "amount", "timestamp", "balance_after"}
    /\ Val(args).payload["timestamp"] = "null"
    /\ Val(args).payload["transaction_id"] # "null"
    /\ Val(args).payload["amount"] # "null"
    /\ Val(args).payload["balance_after"] # "null"
    /\ Len(Val(returned)) = 3
    /\ Val(returned)[2].args = <<"type">>
    /\ Val(returned)[3].args = <<"timestamp">>

\* Payloads for a message type the registry does not have: any that has at most
\* the unregistered field, and the usual payload of each registered type.
ForeignPayloads(message_type) ==
    AnyPayloads(message_type) \cup {UsualPayload(m) : m \in DOMAIN MESSAGE_TYPES}

\* validate, given message type m, returns the unknown-type error alone for every
\* tier name and payload.
UnknownTypeSingleError(m) ==
    \A t \in Tiers, p \in ForeignPayloads(m) :
        validate(m, t, p) = <<Msg("Unknown message type: {}", <<m>>)>>

\* C13: for a message type not in the registry validate returns exactly one
\* error, the unknown-type error, whatever the tier and payload, and process
\* rejects the request at step 5 with code unknown_message_type; a registered
\* type rejected at step 5 gets payload_validation_failed, and
\* unknown_message_type is never the code of a registered type.
C13_UnknownTypeCode ==
    /\ (stage >= 5 /\ req.message_type \notin DOMAIN MESSAGE_TYPES) =>
           /\ UnknownTypeSingleError(req.message_type)
           /\ stage = 5
           /\ Rejected("unknown_message_type")
           /\ Val(result).error_message =
                  Some(Join(<<Msg("Unknown message type: {}", <<req.message_type>>)>>))
    /\ (stage = 5 /\ pc = "done" /\ req.message_type \in DOMAIN MESSAGE_TYPES) =>
           Rejected("payload_validation_failed")
    /\ Rejected("unknown_message_type") => req.message_type \notin DOMAIN MESSAGE_TYPES

C13_Witness ==
    /\ stage = 5
    /\ req.message_type = "promo_blast"
    /\ req.tier = "confidential"
    /\ Rejected("unknown_message_type")

\* How many times process called the collaborator of this name.
TimesCalled(name) == Cardinality({i \in DOMAIN calls : calls[i] = name})

\* C14: every run mints one message id, before the first call to any
\* collaborator (authority, identity directory, key directory, transport); the
\* id of the message handed to transport.deliver and the id in a queued or error
\* result are that id.
C14_MessageIdMintedOnce ==
    /\ stage = 0 => (message_id = None /\ calls = <<>>)
    /\ stage >= 1 =>
           /\ message_id # None
           /\ calls[1] = "uuid4"
           /\ TimesCalled("uuid4") = 1
    /\ \A i \in DOMAIN outbox : Some(outbox[i].message_id) = message_id
    /\ (result # None /\ Val(result).status \in {"queued", "error"}) =>
           Val(result).message_id = message_id

C14_Witness ==
    /\ pc = "done"
    /\ Val(result).status = "queued"
    /\ calls = <<"uuid4", "opa", "directory", "directory", "key", "smtp">>
    /\ Len(outbox) = 1

\* C15: the message id of a SendResult is present for every request that passed
\* step 1, whatever stage rejected it later, and absent only for a request
\* rejected at step 1.
C15_MessageIdAfterStep1 ==
    pc = "done" => (Val(result).message_id # None <=> PassesSchema(req))

\* The step each pc value is about to execute follows the step executed last.
StagesInOrder ==
    /\ pc = "step1" => stage = 0
    /\ pc = "step2" => stage = 1
    /\ pc = "step3" => stage = 2
    /\ pc = "step4" => stage = 3
    /\ pc \in {"step4r", "step5"} => stage = 4
    /\ pc = "step6" => stage = 5
    /\ pc = "step7" => stage = 6
    /\ pc = "raised" => stage = 7
    /\ pc = "step8" => stage = 7
    /\ pc = "step9" => stage = 8

\* The stage whose collaborator a call is; minting the id is no stage's.
StageOfCall(name) ==
    CASE name = "uuid4" -> 0
      [] name = "opa" -> 2
      [] name = "directory" -> 4
      [] name = "key" -> 8
      [] name = "smtp" -> 9

\* The stub authority's policy denies the request, or the honeypot does.
DeniedByPolicy(r) ==
    \/ r.message_type = "password_reset"
    \/ r.calling_service \notin DOMAIN CALLER_TIER_POLICY
    \/ r.tier \notin CALLER_TIER_POLICY[r.calling_service]

\* The request names an address literal at a tier that needs a registered identity.
LiteralAtIdentityTier(r) ==
    r.tier \in {"personal", "confidential", "restricted"} /\ r.recipient_type = "email"

\* The payload fails validation: the type is unknown, the tier ranks below the
\* type's minimum, or a required field is absent or null.
InvalidPayload(r) ==
    \/ r.message_type \notin DOMAIN MESSAGE_TYPES
    \/ RankOf(r.tier) < RankOf(MESSAGE_TYPES[r.message_type].minimum_tier)
    \/ MissingPositions(r.message_type, r.payload) # {}

\* The request waives encryption at personal tier without a token.
WaiverWithoutToken(r) ==
    r.tier = "personal" /\ r.encryption_waived /\ r.waiver_token \in {None, Some("")}

\* process returned a rejection with this code after this stage, having called
\* no collaborator of a later stage and handed nothing to transport.
RejectedAt(code, k) ==
    /\ Rejected(code)
    /\ stage = k
    /\ \A i \in DOMAIN calls : StageOfCall(calls[i]) <= k
    /\ outbox = <<>>

\* C16: the nine stages run in their fixed order and a request that fails several
\* of them is rejected with the code of the earliest one that fails (an
\* unpermitted caller with an invalid payload gets auth_denied, an address
\* literal at personal tier with an unknown message type gets invalid_recipient,
\* an unresolvable identity with an invalid payload gets recipient_not_found);
\* after a rejection no collaborator of a later stage has been called and
\* process takes no further step.
C16_EarliestFailingStage ==
    /\ StagesInOrder
    /\ \A i, j \in DOMAIN calls : i < j => StageOfCall(calls[i]) <= StageOfCall(calls[j])
    /\ pc = "done" =>
           /\ ~ENABLED Next
           /\ IF ~PassesSchema(req) THEN RejectedAt("invalid_schema", 1)
              ELSE IF DeniedByPolicy(req) THEN RejectedAt("auth_denied", 2)
              ELSE IF LiteralAtIdentityTier(req) THEN RejectedAt("invalid_recipient", 3)
              ELSE IF \E i \in DOMAIN lookups : lookups[i] \in {None, Some("")}
              THEN RejectedAt("recipient_not_found", 4)
              ELSE IF Len(lookups) = 2 /\ lookups[1] # lookups[2]
              THEN RejectedAt("restricted_address_mismatch", 4)
              ELSE IF InvalidPayload(req)
              THEN \/ RejectedAt("unknown_message_type", 5)
                   \/ RejectedAt("payload_validation_failed", 5)
              ELSE IF WaiverWithoutToken(req) THEN RejectedAt("waiver_token_invalid", 6)
              ELSE stage = 9 /\ Val(result).status \in {"queued", "error"}

\* An unresolvable identity with an invalid payload was rejected at stage 4.
C16_Witness ==
    /\ PassesSchema(req)
    /\ req.recipient_type = "user_id"
    /\ lookups = <<None>>
    /\ InvalidPayload(req)
    /\ Rejected("recipient_not_found")
    /\ calls = <<"uuid4", "opa", "directory">>

\* C17: a result is queued exactly when transport.deliver was called and reported
\* success, error exactly when it was called and reported failure (the code is
\* then smtp_unavailable), and rejected exactly when process stopped before
\* calling transport.deliver, in which case an error code is set and encrypted
\* is absent.
C17_StatusReflectsTransport ==
    pc = "done" =>
        LET r == Val(result)
            delivered == Called("smtp") /\ outbox # <<>> /\ transport_result # None
        IN  /\ r.status \in {"queued", "error", "rejected"}
            /\ r.status = "queued" <=> (delivered /\ Val(transport_result).success)
            /\ r.status = "error" <=> (delivered /\ ~Val(transport_result).success)
            /\ r.status = "error" => r.error_code = Some("smtp_unavailable")
            /\ r.status = "rejected" <=>
                   (~Called("smtp") /\ outbox = <<>> /\ transport_result = None)
            /\ r.status = "rejected" => (r.error_code # None /\ r.encrypted = None)

C17_Witness ==
    /\ pc = "done"
    /\ Val(result).status = "error"
    /\ Called("smtp")
    /\ transport_result # None /\ ~Val(transport_result).success

\* C18: process never retries a stage: in one run the authority, encrypt and
\* transport.deliver are each called at most once, and a failed handoff ends the
\* run with status error after that one delivery attempt.
C18_NoRetry ==
    /\ TimesCalled("opa") <= 1
    /\ TimesCalled("key") <= 1
    /\ TimesCalled("smtp") <= 1
    /\ Len(outbox) <= 1
    /\ (transport_result # None /\ ~Val(transport_result).success) =>
           /\ pc = "done"
           /\ Val(result).status = "error"
           /\ TimesCalled("smtp") = 1
           /\ Len(outbox) = 1

C18_Witness ==
    /\ transport_result # None /\ ~Val(transport_result).success
    /\ TimesCalled("opa") = 1
    /\ TimesCalled("key") = 1
    /\ TimesCalled("smtp") = 1
    /\ pc = "done"

\* An identity-directory lookup of this run timed out or raised.
DirectoryFault == \E i \in DOMAIN responses : responses[i].raised

NoAddress(i) ==
    \/ responses[i].raised
    \/ responses[i].email = None
    \/ responses[i].email = Some("")

\* C20: for a user_id recipient, whenever a lookup of the identity directory (the
\* stage-4 lookup or the restricted-tier lookup of the registered address) yields
\* no address, by a miss, an empty address, a timeout or an exception, process
\* makes no further lookup, returns rejected with code recipient_not_found, uses
\* no other address in its place and hands nothing to transport.
C20_LookupFailureRejected ==
    /\ responses # <<>> => req.recipient_type = "user_id"
    /\ \A i \in DOMAIN responses :
           NoAddress(i) =>
               /\ i = Len(responses)
               /\ lookups[i] = None
               /\ Rejected("recipient_not_found")
               /\ i = 1 => resolved_address = None
               /\ i = 2 => resolved_address = lookups[1]
               /\ ~Called("smtp")
               /\ outbox = <<>>

\* The restricted-tier lookup of the registered address answered with an empty
\* address after the stage-4 lookup had found one.
C20_Witness ==
    /\ req.tier = "restricted"
    /\ Len(responses) = 2
    /\ responses[1].email = Some("a@x.io")
    /\ ~responses[2].raised /\ responses[2].email = Some("")
    /\ Rejected("recipient_not_found")
    /\ outbox = <<>>

\* Message type m with payload p fails validation at tier e.
InvalidPayloadAt(m, e, p) ==
    \/ m \notin DOMAIN MESSAGE_TYPES
    \/ RankOf(e) < RankOf(MESSAGE_TYPES[m].minimum_tier)
    \/ MissingPositions(m, p) # {}

\* C21: after step 2 every decision is the one the enforced tier calls for,
\* whatever tier was requested: the recipient-compatibility check, payload
\* validation and the encryption decision are functions of the enforced tier and
\* of the request's other fields, so two authorized requests that differ only in
\* requested tier and get the same enforced tier are decided alike; the tier of
\* the message handed to transport and of the result is the enforced tier.
C21_OnlyEnforcedTierUsed ==
    Authorized =>
        LET e == Val(enforced_tier)
            literal == e \in {"personal", "confidential", "restricted"}
                           /\ req.recipient_type = "email"
            invalid == InvalidPayloadAt(req.message_type, e, req.payload)
            decision == DecisionTable(e, req.encryption_waived, req.waiver_token)
        IN  /\ (stage = 3 /\ pc = "done") => (literal /\ Rejected("invalid_recipient"))
            /\ (stage > 3 \/ pc = "step4") => ~literal
            /\ (stage = 5 /\ pc = "done") =>
                   /\ invalid
                   /\ Val(result).error_code \in
                          {Some("unknown_message_type"), Some("payload_validation_failed")}
            /\ (stage > 5 \/ pc = "step6") => ~invalid
            /\ (stage = 6 /\ pc = "done") =>
                   (decision = "reject" /\ Rejected("waiver_token_invalid"))
            /\ should_encrypt # None => Val(should_encrypt) = (decision = "encrypt")
            /\ \A i \in DOMAIN outbox : outbox[i].tier = e
            /\ result # None => Val(result).enforced_tier = Some(e)

\* A request for system tier was enforced at confidential tier and sent encrypted.
C21_Witness ==
    /\ Authorized
    /\ req.tier = "system"
    /\ enforced_tier = Some("confidential")
    /\ pc = "done" /\ Val(result).status = "queued"
    /\ Val(result).encrypted = Some(TRUE)
    /\ Len(outbox) = 1 /\ outbox[1].tier = "confidential"

\* Scenario A: social tier, game_invite, a caller permitted to send social, every
\* required field present and non-null, an address literal as recipient.
ScenarioA ==
    /\ req.tier = "social"
    /\ req.message_type = "game_invite"
    /\ req.calling_service \in {"test", "game-state", "chat-service"}
    /\ req.request_id # ""
    /\ req.recipient_type = "email" /\ req.recipient_value # ""
    /\ \A f \in {"inviter_name", "table_name", "join_url"} :
           f \in DOMAIN req.payload /\ req.payload[f] # "null"

\* C22: a scenario-A request is handed to transport for exactly the literal
\* address, unencrypted, with no identity-directory or key lookup, and ends with
\* status queued and encrypted = false when the transport accepts the message.
C22_ScenarioA ==
    ScenarioA =>
        /\ pc # "raised"
        /\ ~Called("directory") /\ ~Called("key")
        /\ \A i \in DOMAIN outbox :
               outbox[i].to_address = req.recipient_value /\ ~outbox[i].encrypted
        /\ pc = "done" =>
               /\ calls = <<"uuid4", "opa", "smtp">>
               /\ Len(outbox) = 1
               /\ Val(transport_result).success =>
                      /\ Val(result).status = "queued"
                      /\ Val(result).encrypted = Some(FALSE)
                      /\ Val(result).enforced_tier = Some("social")

C22_Witness ==
    /\ ScenarioA
    /\ req.calling_service = "game-state"
    /\ pc = "done"
    /\ Val(result).status = "queued"
    /\ outbox[1].to_address = "a@x.io"

\* C23: a request whose tier is none of the five tier names is rejected at step 1
\* with invalid_schema: no tier is enforced in its place and neither the authority
\* nor any other collaborator is called.
C23_UnknownTierRejected ==
    (req.tier \notin {"system", "social", "personal", "confidential", "restricted"}
        /\ stage >= 1) =>
        /\ stage = 1
        /\ Rejected("invalid_schema")
        /\ Val(result).enforced_tier = None
        /\ enforced_tier = None
        /\ auth_result = None
        /\ calls = <<"uuid4">>
        /\ lookups = <<>> /\ outbox = <<>>

C23_Witness ==
    /\ req.tier = "vip"
    /\ req.calling_service = "test" /\ req.request_id = "req-1"
    /\ req.recipient_type = "user_id" /\ req.recipient_value = "user-7"
    /\ Rejected("invalid_schema")
    /\ Val(result).error_message = Some(Msg("Unknown tier: {}", <<"vip">>))

\* C24: every run ends in one of the terminal states queued, rejected or error:
\* process never leaves by an exception, and a run that can take no further step
\* has returned a SendResult with one of the three statuses, also for a payload
\* that passes validate but holds a value the renderer cannot format.
C24_AlwaysReturnsResult ==
    /\ pc # "raised"
    /\ ~ENABLED Next =>
           /\ pc = "done"
           /\ result # None
           /\ Val(result).status \in {"queued", "rejected", "error"}

\* render returned a subject and bodies: the renderer did not raise.
RenderReturned == returned # None /\ ~Val(returned).raised

\* The plaintext body starts with the encryption notice; it starts with nothing.
NoticePrepended == Val(returned).body_text.text = "[This message is encrypted end-to-end]"
NothingPrepended == Val(returned).body_text.text = ""

\* C25, as stated: render called with the encrypted flag true returns no rich
\* body for any message type and prepends the encryption notice to the plaintext
\* body only; called with the flag false it prepends no notice.
C25_NoRichBodyWhenEncrypted ==
    RenderReturned =>
        IF Val(args).encrypted
        THEN Val(returned).body_html = None /\ NoticePrepended
        ELSE NothingPrepended

\* C25, amended: render returns a rich body for verify_email and magic_link and
\* none for the other types, whatever the encrypted flag; with the flag true it
\* prepends the encryption notice to the plaintext body only, with the flag false
\* it prepends nothing.
C25_RichBodyWhateverTheFlag ==
    RenderReturned =>
        /\ Val(returned).body_html # None <=>
               Val(args).message_type \in {"verify_email", "magic_link"}
        /\ Val(returned).body_html # None =>
               Val(Val(returned).body_html).text = "<!DOCTYPE html>{}{}"
        /\ Val(returned).subject.text # "[This message is encrypted end-to-end]"
        /\ IF Val(args).encrypted THEN NoticePrepended ELSE NothingPrepended

\* render returned a rich body although the encrypted flag was true.
C25_Witness ==
    /\ RenderReturned
    /\ Val(args).encrypted
    /\ Val(args).message_type = "verify_email"
    /\ Val(returned).body_html # None
    /\ NoticePrepended

\* The privilege hierarchy: the tiers each calling service may send.
Permitted(service, tier) ==
    \/ service = "auth-service" /\ tier = "system"
    \/ service = "game-state" /\ tier \in {"system", "social", "personal"}
    \/ service = "chat-service" /\ tier = "social"
    \/ service = "bank-service" /\ tier = "restricted"
    \/ service = "test"
           /\ tier \in {"system", "social", "personal", "confidential", "restricted"}

RenderOrDeliverReached == pc = "step7" \/ stage >= 7 \/ outbox # <<>>

\* C27: render and transport.deliver are reached only after step 5 ran and
\* validate returned no error for the request's message type, the enforced tier
\* and the payload: the type rendered is registered, is not the honeypot type,
\* has a minimum tier the enforced tier does not rank below, and has every
\* required field present and non-null.
C27_RenderOnlyAfterValidate ==
    RenderOrDeliverReached =>
        /\ stage >= 5
        /\ Authorized
        /\ validate(req.message_type, Val(enforced_tier), req.payload) = <<>>
        /\ req.message_type \in DOMAIN MESSAGE_TYPES
        /\ req.message_type # "password_reset"
        /\ RankOf(MESSAGE_TYPES[req.message_type].minimum_tier) <= RankOf(Val(enforced_tier))
        /\ MissingPositions(req.message_type, req.payload) = {}

\* A session summary requested at social tier and enforced at personal tier was
\* rendered and handed to transport.
C27_Witness ==
    /\ req.message_type = "session_summary"
    /\ req.tier = "social"
    /\ enforced_tier = Some("personal")
    /\ rendered # None
    /\ outbox # <<>>

\* C28: whenever step 8 is reached with the decision to encrypt, the enforced
\* tier is personal, confidential or restricted, the recipient is a user_id and
\* recipient_user_id holds it, so no run is rejected with encryption_key_missing
\* for want of a user_id.
C28_EncryptImpliesUserId ==
    /\ ((pc = "step8" \/ stage >= 8) /\ should_encrypt = Some(TRUE)) =>
           /\ Val(enforced_tier) \in {"personal", "confidential", "restricted"}
           /\ req.recipient_type = "user_id"
           /\ recipient_user_id = Some(req.recipient_value)
           /\ req.recipient_value # ""
    /\ result # None =>
           Val(result).error_message #
               Some(Msg("Cannot encrypt: no user_id to look up public key", <<>>))

\* Step 8 is about to encrypt for a user_id recipient at personal tier.
C28_Witness ==
    /\ pc = "step8"
    /\ should_encrypt = Some(TRUE)
    /\ enforced_tier = Some("personal")
    /\ recipient_user_id = Some("user-7")

\* The points of a card with an ace as 1; hidden cards and unknown ranks count 0.
LowPoints(rank) ==
    CASE rank = "A" -> 1
      [] rank \in {"2", "3", "4", "5", "6", "7", "8", "9"} ->
             CHOOSE n \in 2..9 : ToString(n) = rank
      [] rank \in {"10", "J", "Q", "K"} -> 10
      [] OTHER -> 0

\* The value of a hand with every ace as 1, and the number of its aces.
RECURSIVE LowTotal(_)
LowTotal(hand) == IF hand = <<>> THEN 0 ELSE LowPoints(Head(hand)) + LowTotal(Tail(hand))
AcesOf(hand) == Cardinality({i \in DOMAIN hand : hand[i] = "A"})

\* The best value of a hand: the highest value not above 21 that counting some
\* of its aces as 11 gives, or the value with every ace as 1 when there is none.
BestValue(hand) ==
    LET values == {LowTotal(hand) + 10 * k : k \in 0..AcesOf(hand)}
        playable == {v \in values : v <= 21}
    IN  IF playable = {} THEN LowTotal(hand)
        ELSE CHOOSE v \in playable : \A w \in playable : w <= v

\* C29: dealer_decision reports as handValue the best value of the hand, as
\* isSoft whether that value is at most 21 with some ace counted as 11, and as
\* action bust above 21, hit below 17 and on a soft 17, and stand otherwise (hard
\* 17 and every value from 18 to 21).
C29_DealerRules ==
    returned # None =>
        LET hand == Val(args).hand
            best == BestValue(hand)
            soft == best <= 21 /\ best > LowTotal(hand)
            decision == Val(returned)
        IN  /\ decision.handValue = best
            /\ decision.isSoft = soft
            /\ decision.action = "bust" <=> best > 21
            /\ decision.action = "hit" <=> (best < 17 \/ (best = 17 /\ soft))
            /\ decision.action = "stand" <=>
                   (best \in 17..21 /\ ~(best = 17 /\ soft))
            /\ decision.action \in {"bust", "hit", "stand"}

\* The dealer hit on a soft 17 made of two aces downgraded one after the other
\* and a third still counted as 11.
C29_Witness ==
    /\ returned # None
    /\ Val(args).hand = <<"A", "A", "A", "4">>
    /\ Val(returned).action = "hit"
    /\ Val(returned).handValue = 17
    /\ Val(returned).isSoft

====
